---- MODULE Spec2Model ----
(***************************************************************************)
(* Model of src/main.ts: the DirectedGraph<T> class (an insertion-ordered  *)
(* Map<T, Set<T>>) with its builder, queries and transformations, and the  *)
(* main() workflow that drives it.                                         *)
(*                                                                         *)
(* A Map is a sequence of <<key, value>> pairs in insertion order, a Set   *)
(* whose iteration order matters is a duplicate-free sequence in insertion *)
(* order; a Set that is only probed with has() is a plain set.             *)
(***************************************************************************)
EXTENDS Integers, Sequences, FiniteSets, TLC

VARIABLES graph, calls, pc, ts, result

vars == <<graph, calls, pc, ts, result>>

(* ------------------------------ bounds --------------------------------- *)

\* Number of addAll calls with arbitrary arguments made while building a
\* graph.
MaxCalls == 2

\* Number of destinations passed to one addAll call.
MaxDests == 2

\* Package names. Graphs are built over BuildNodes, so that "four" is a name
\* that is no key of them; the README's example graph uses all four.
Nodes == {"one", "two", "three", "four"}

BuildNodes == {"one", "two", "three"}

(* ------------------------- Map and Set helpers ------------------------- *)

Range(s) == {s[i] : i \in 1..Len(s)}

\* Set.prototype.add on an insertion-ordered Set.
SetAdd(s, x) == IF x \in Range(s) THEN s ELSE Append(s, x)

\* Map.prototype.has
MapHas(m, k) == \E i \in 1..Len(m) : m[i][1] = k

\* Map.prototype.get, for a key the map has.
MapGet(m, k) == m[CHOOSE i \in 1..Len(m) : m[i][1] = k][2]

\* Map.prototype.set: an existing key keeps its position.
MapSet(m, k, v) ==
    IF MapHas(m, k)
    THEN [i \in 1..Len(m) |-> IF m[i][1] = k THEN <<k, v>> ELSE m[i]]
    ELSE Append(m, <<k, v>>)

\* [...map.keys()]
MapKeys(m) == [i \in 1..Len(m) |-> m[i][1]]

\* Sets.addAll(s, xs)
RECURSIVE SetsAddAll(_, _)
SetsAddAll(s, xs) ==
    IF xs = <<>> THEN s ELSE SetsAddAll(SetAdd(s, Head(xs)), Tail(xs))

(* ------------------------------ builder -------------------------------- *)

\* A mutation of ensureAll that forgets to create the missing nodes.
ensureAllSkipped(g, nodes) == g

\* DirectedGraph.ensureAll
RECURSIVE ensureAll(_, _)
ensureAll(g, nodes) ==
    IF nodes = <<>> THEN g
    ELSE ensureAll(IF MapHas(g, Head(nodes)) THEN g
                   ELSE MapSet(g, Head(nodes), <<>>),
                   Tail(nodes))

\* DirectedGraph.addAll(from, ...to)
addAll(g, from, to) ==
    LET g1 == IF MapHas(g, from) THEN g ELSE MapSet(g, from, <<>>)
        g2 == MapSet(g1, from, SetsAddAll(MapGet(g1, from), to))
    IN  ensureAll(g2, to)

(* --------------------------- cycle detection --------------------------- *)

\* The while loop of isCyclic: one root's traversal.
RECURSIVE isCyclicWalk(_, _, _)
isCyclicWalk(g, toVisit, seenOnThisWalk) ==
    IF toVisit = <<>> THEN [cyclic |-> FALSE, seen |-> seenOnThisWalk]
    ELSE LET nextNode == Head(toVisit)
         IN  IF nextNode \in seenOnThisWalk
             THEN [cyclic |-> TRUE, seen |-> seenOnThisWalk]
             ELSE isCyclicWalk(
                      g,
                      Tail(toVisit) \o (IF MapHas(g, nextNode)
                                        THEN MapGet(g, nextNode) ELSE <<>>),
                      seenOnThisWalk \cup {nextNode})

\* The for loop of isCyclic over this.edges.keys(), from the i-th key on.
RECURSIVE isCyclicFrom(_, _, _)
isCyclicFrom(g, i, seenOnAllWalks) ==
    IF i > Len(g) THEN FALSE
    ELSE IF g[i][1] \in seenOnAllWalks
         THEN isCyclicFrom(g, i + 1, seenOnAllWalks)
         ELSE LET w == isCyclicWalk(g, g[i][2], {})
              IN  IF w.cyclic THEN TRUE
                  ELSE isCyclicFrom(g, i + 1, seenOnAllWalks \cup w.seen)

\* DirectedGraph.isCyclic
isCyclic(g) == isCyclicFrom(g, 1, {})

(* ------------------------------ indegrees ------------------------------ *)

RECURSIVE indegreesNeighbours(_, _)

\* A mutation of the inner loop of indegrees that records that a neighbour
\* has an incoming edge instead of counting its incoming edges.
indegreesNeighboursUncounted(inDegrees, neighbours) ==
    IF neighbours = <<>> THEN inDegrees
    ELSE indegreesNeighbours(MapSet(inDegrees, Head(neighbours), 1),
                             Tail(neighbours))

\* The inner loop of indegrees over one node's neighbours.
indegreesNeighbours(inDegrees, neighbours) ==
    IF neighbours = <<>> THEN inDegrees
    ELSE LET neighbour == Head(neighbours)
             count == IF MapHas(inDegrees, neighbour)
                      THEN MapGet(inDegrees, neighbour) ELSE 0
         IN  indegreesNeighbours(MapSet(inDegrees, neighbour, count + 1),
                                 Tail(neighbours))

\* The outer loop of indegrees over this.edges.entries(), from the i-th on.
RECURSIVE indegreesFrom(_, _, _)
indegreesFrom(g, i, inDegrees) ==
    IF i > Len(g) THEN inDegrees
    ELSE LET d == IF MapHas(inDegrees, g[i][1]) THEN inDegrees
                  ELSE MapSet(inDegrees, g[i][1], 0)
         IN  indegreesFrom(g, i + 1, indegreesNeighbours(d, g[i][2]))

\* DirectedGraph.indegrees
indegrees(g) == indegreesFrom(g, 1, <<>>)

(* --------------------------- topological sort -------------------------- *)

NoSourceError == "a DAG must have at least one source (a node with an in-degree of 0)"

CycleError == "Graph has a cycle! No topological ordering exists."

Ok(v) == [error |-> "none", value |-> v]

Throw(e) == [error |-> e, value |-> <<>>]

\* topoSort up to its first assertion: the in-degrees and the initial sources.
topoSortInit(g) ==
    LET inDegrees == indegrees(g)
        zero == SelectSeq(inDegrees, LAMBDA e : e[2] = 0)
    IN  [inDegrees |-> inDegrees,
         sources |-> MapKeys(zero),
         ordering |-> <<>>]

\* The for loop of topoSort over the popped node's neighbours.
RECURSIVE topoSortNeighbours(_, _)
topoSortNeighbours(st, neighbours) ==
    IF neighbours = <<>> THEN st
    ELSE LET neighbour == Head(neighbours)
             neighbourIndegree == MapGet(st.inDegrees, neighbour) - 1
         IN  topoSortNeighbours(
                 [st EXCEPT !.inDegrees = MapSet(@, neighbour, neighbourIndegree),
                            !.sources = IF neighbourIndegree = 0
                                        THEN Append(@, neighbour) ELSE @],
                 Tail(neighbours))

\* A mutation of the loop body that takes the next node from the front of
\* the work-list (shift) instead of its end (pop).
topoSortStepFifo(g, st) ==
    LET node == Head(st.sources)
        popped == [st EXCEPT !.sources = Tail(@),
                             !.ordering = Append(@, node)]
    IN  topoSortNeighbours(popped,
                           IF MapHas(g, node) THEN MapGet(g, node) ELSE <<>>)

\* One iteration of the while loop of topoSort.
topoSortStep(g, st) ==
    LET node == st.sources[Len(st.sources)]
        popped == [st EXCEPT !.sources = SubSeq(@, 1, Len(@) - 1),
                             !.ordering = Append(@, node)]
    IN  topoSortNeighbours(popped,
                           IF MapHas(g, node) THEN MapGet(g, node) ELSE <<>>)

\* The while loop of topoSort.
RECURSIVE topoSortLoop(_, _)
topoSortLoop(g, st) ==
    IF st.sources = <<>> THEN st ELSE topoSortLoop(g, topoSortStep(g, st))

\* A mutation of the final assertion that accepts any ordering.
topoSortFinishUnchecked(g, st) == Ok(st.ordering)

\* topoSort after its loop: the final assertion and the return.
topoSortFinish(g, st) ==
    IF Len(st.ordering) = Len(g) THEN Ok(st.ordering) ELSE Throw(CycleError)

\* DirectedGraph.topoSort
topoSort(g) ==
    LET st == topoSortInit(g)
    IN  IF st.sources = <<>> THEN Throw(NoSourceError)
        ELSE topoSortFinish(g, topoSortLoop(g, st))

(* ------------------------------ inversion ------------------------------ *)

\* The inner loop of invert over one node's deps.
RECURSIVE invertDeps(_, _, _)
invertDeps(inverted, edge, deps) ==
    IF deps = <<>> THEN inverted
    ELSE invertDeps(addAll(inverted, Head(deps), <<edge>>), edge, Tail(deps))

RECURSIVE invertFrom(_, _, _)

\* A mutation of invert that leaves out inverted.addAll(edge).
invertFromEdgesOnly(g, i, inverted) ==
    IF i > Len(g) THEN inverted
    ELSE invertFrom(g, i + 1, invertDeps(inverted, g[i][1], g[i][2]))

\* The outer loop of invert over this.edges, from the i-th entry on.
invertFrom(g, i, inverted) ==
    IF i > Len(g) THEN inverted
    ELSE invertFrom(g, i + 1,
                    invertDeps(addAll(inverted, g[i][1], <<>>),
                               g[i][1], g[i][2]))

\* DirectedGraph.invert
invert(g) == invertFrom(g, 1, <<>>)

(* -------------------------------- walk --------------------------------- *)

\* A mutation of the loop over deps that queues only the first dep.
walkDepsFirstOnly(toVisit, seen, deps) ==
    IF deps = <<>> \/ Head(deps) \in Range(seen) THEN toVisit
    ELSE Append(toVisit, Head(deps))

\* The for loop of walk over the deps of the node taken from the queue.
RECURSIVE walkDeps(_, _, _)
walkDeps(toVisit, seen, deps) ==
    IF deps = <<>> THEN toVisit
    ELSE walkDeps(IF Head(deps) \in Range(seen) THEN toVisit
                  ELSE Append(toVisit, Head(deps)),
                  seen, Tail(deps))

\* The while loop of walk. Iterating the edge set of a node that is no key
\* (this.edges.get(next)! is undefined) throws a TypeError.
RECURSIVE walkLoop(_, _, _)
walkLoop(g, toVisit, seen) ==
    IF toVisit = <<>> THEN Ok(seen)
    ELSE LET next == Head(toVisit)
         IN  IF ~MapHas(g, next) THEN Throw("TypeError")
             ELSE walkLoop(g,
                           walkDeps(Tail(toVisit), seen, MapGet(g, next)),
                           SetAdd(seen, next))

\* DirectedGraph.walk
walk(g, start) == walkLoop(g, <<start>>, <<>>)

(* ------------------------------ subgraph ------------------------------- *)

RECURSIVE subgraphFrom(_, _, _, _)

\* A mutation of subgraph that does not filter the deps of a kept node.
subgraphFromUnfiltered(g, i, keep, sub) ==
    IF i > Len(g) THEN sub
    ELSE IF g[i][1] \notin keep THEN subgraphFrom(g, i + 1, keep, sub)
         ELSE subgraphFrom(g, i + 1, keep, addAll(sub, g[i][1], g[i][2]))

\* The loop of subgraph over this.edges, from the i-th entry on.
subgraphFrom(g, i, keep, sub) ==
    IF i > Len(g) THEN sub
    ELSE IF g[i][1] \notin keep THEN subgraphFrom(g, i + 1, keep, sub)
         ELSE subgraphFrom(g, i + 1, keep,
                           addAll(sub, g[i][1],
                                  SelectSeq(g[i][2], LAMBDA dep : dep \in keep)))

\* DirectedGraph.subgraph
subgraph(g, keep) == subgraphFrom(g, 1, keep, <<>>)

(* ------------------------------ rendering ------------------------------ *)

\* The lines printAsGraphVis writes for one package's deps.
RECURSIVE printDeps(_, _)
printDeps(pkg, deps) ==
    IF deps = <<>> THEN <<>>
    ELSE <<(<<"edge", pkg, Head(deps)>>)>> \o printDeps(pkg, Tail(deps))

\* The loop of printAsGraphVis over this.edges, from the i-th entry on.
RECURSIVE printFrom(_, _)
printFrom(g, i) ==
    IF i > Len(g) THEN <<>>
    ELSE <<(<<"node", g[i][1]>>)>> \o printDeps(g[i][1], g[i][2])
             \o printFrom(g, i + 1)

\* DirectedGraph.printAsGraphVis: the lines of the digraph block.
printAsGraphVis(g) == <<(<<"digraph G {">>)>> \o printFrom(g, 1) \o <<(<<"}">>)>>

(* ------------------------------- main ---------------------------------- *)

\* x << n
ShiftLeft(x, n) == x * (2 ^ n)

\* x & y on non-negative integers.
RECURSIVE BitAnd(_, _)
BitAnd(x, y) ==
    IF x = 0 \/ y = 0 THEN 0
    ELSE (IF x % 2 = 1 /\ y % 2 = 1 THEN 1 ELSE 0)
         + 2 * BitAnd(x \div 2, y \div 2)

\* enum Mode
TOPO == ShiftLeft(1, 1)

VIZ == ShiftLeft(1, 2)

ALL == BitAnd(TOPO, VIZ)

\* The mode arguments a run is given: a valid one, or one that is neither.
ModeArgs == {"topo", "viz", "bogus"}

\* parseCliArgs on the arguments left after argv.slice(2) and the removal of
\* --debug: the entrypoint, then the optional mode.
parseCliArgs(args) ==
    IF Len(args) = 0 THEN Throw("missing entrypoint")
    ELSE IF Len(args) = 1 THEN Ok([entrypoint |-> args[1], mode |-> ALL])
    ELSE IF args[2] = "topo" THEN Ok([entrypoint |-> args[1], mode |-> TOPO])
    ELSE IF args[2] = "viz" THEN Ok([entrypoint |-> args[1], mode |-> VIZ])
    ELSE Throw("invalid mode")

\* A mutation of the selection in main that walks the graph itself instead
\* of its inversion.
selectForward(g, entrypoint) ==
    subgraph(g, Range(walk(g, entrypoint).value))

\* main, lines 75-79: the graph main goes on with.
select(g, entrypoint) ==
    LET inverted == invert(g)
        transitivelyDependsOnEntrypoint == walk(inverted, entrypoint).value
    IN  subgraph(g, Range(transitivelyDependsOnEntrypoint))

\* main, lines 81-82, on the selected graph: what is written to stdout, and
\* the error that ends the run.
print(g, mode) ==
    LET topo == IF BitAnd(mode, TOPO) # 0 THEN topoSort(g) ELSE Ok(<<>>)
        out1 == IF BitAnd(mode, TOPO) # 0 /\ topo.error = "none"
                THEN <<(<<"topo", topo.value>>)>> ELSE <<>>
        out2 == IF BitAnd(mode, VIZ) # 0
                THEN <<(<<"viz", printAsGraphVis(g)>>)>> ELSE <<>>
    IN  IF topo.error # "none"
        THEN [error |-> topo.error, graph |-> g, stdout |-> out1]
        ELSE [error |-> "none", graph |-> g, stdout |-> out1 \o out2]

\* main on the graph its loop has built (g) and its arguments.
main(g, args) ==
    LET parsed == parseCliArgs(args)
    IN  IF parsed.error # "none"
        THEN [error |-> parsed.error, graph |-> <<>>, stdout |-> <<>>]
        ELSE IF ~MapHas(g, parsed.value.entrypoint)
        THEN [error |-> "could not find entrypoint", graph |-> g, stdout |-> <<>>]
        ELSE print(select(g, parsed.value.entrypoint), parsed.value.mode)

(* --------------------------- the state machine ------------------------- *)

NoTopo == [inDegrees |-> <<>>, sources |-> <<>>, ordering |-> <<>>]

NoResult == [op |-> "none", arg |-> <<>>, value |-> <<>>]

\* new DirectedGraph(): no edges; nothing has been called.
Init ==
    /\ graph = <<>>
    /\ calls = 0
    /\ pc = "build"
    /\ ts = NoTopo
    /\ result = NoResult

\* The calls that build the README's example graph, in order.
ReadmeCalls ==
    << <<"one", <<"two", "three">> >>,
       <<"two", <<"four">> >>,
       <<"three", <<"four">> >> >>

\* The graph the first n calls of the README's example build.
RECURSIVE ReadmeGraph(_)
ReadmeGraph(n) ==
    IF n = 0 THEN <<>>
    ELSE addAll(ReadmeGraph(n - 1), ReadmeCalls[n][1], ReadmeCalls[n][2])

\* The destination lists of one addAll call.
DestLists == UNION {[1..n -> BuildNodes] : n \in 0..MaxDests}

\* The arguments of the next addAll call on graph g after n calls: any
\* source and any destinations over BuildNodes while fewer than MaxCalls
\* calls were made, and the next call of the README's example while g is
\* being built as that example.
AddAllArgs(g, n) ==
    (IF n < MaxCalls
     THEN {<<from, to>> : from \in BuildNodes, to \in DestLists}
     ELSE {})
        \cup {ReadmeCalls[k] : k \in {j \in 1..Len(ReadmeCalls) : g = ReadmeGraph(j - 1)}}

\* graph.addAll(from, ...to) during the build phase.
AddAll(from, to) ==
    /\ pc = "build"
    /\ graph' = addAll(graph, from, to)
    /\ calls' = calls + 1
    /\ UNCHANGED <<pc, ts, result>>

\* An operation of the query phase returns.
Return(op, arg, value) ==
    /\ pc' = "done"
    /\ result' = [op |-> op, arg |-> arg, value |-> value]
    /\ UNCHANGED <<graph, calls>>

IsCyclic ==
    /\ pc = "build"
    /\ Return("isCyclic", <<>>, isCyclic(graph))
    /\ UNCHANGED ts

Invert ==
    /\ pc = "build"
    /\ Return("invert", <<>>, invert(graph))
    /\ UNCHANGED ts

\* invert() of the graph a previous invert() returned.
InvertAgain ==
    /\ pc = "done"
    /\ result.op = "invert"
    /\ Return("invertInverted", <<>>, invert(result.value))
    /\ UNCHANGED ts

Walk(start) ==
    /\ pc = "build"
    /\ Return("walk", start, walk(graph, start))
    /\ UNCHANGED ts

Subgraph(keep) ==
    /\ pc = "build"
    /\ Return("subgraph", keep, subgraph(graph, keep))
    /\ UNCHANGED ts

PrintAsGraphVis ==
    /\ pc = "build"
    /\ Return("printAsGraphVis", <<>>, printAsGraphVis(graph))
    /\ UNCHANGED ts

\* topoSort, lines 175-186: the in-degrees, the sources, the first assertion.
TopoSortBegin ==
    /\ pc = "build"
    /\ LET st == topoSortInit(graph)
       IN  IF st.sources = <<>>
           THEN /\ Return("topoSort", <<>>, Throw(NoSourceError))
                /\ UNCHANGED ts
           ELSE /\ pc' = "topo"
                /\ ts' = st
                /\ UNCHANGED <<graph, calls, result>>

\* topoSort, lines 189-200: one iteration of the while loop.
TopoSortStep ==
    /\ pc = "topo"
    /\ ts.sources # <<>>
    /\ ts' = topoSortStep(graph, ts)
    /\ UNCHANGED <<graph, calls, pc, result>>

\* topoSort, lines 202-207: the final assertion and the return.
TopoSortEnd ==
    /\ pc = "topo"
    /\ ts.sources = <<>>
    /\ Return("topoSort", <<>>, topoSortFinish(graph, ts))
    /\ UNCHANGED ts

\* The arguments of a run.
MainArgs ==
    {<<>>} \cup {<<e>> : e \in Nodes} \cup {<<e, m>> : e \in Nodes, m \in ModeArgs}

\* main() after its loop has built the graph.
Main(args) ==
    /\ pc = "build"
    /\ Return("main", args, main(graph, args))
    /\ UNCHANGED ts

Query ==
    \/ IsCyclic
    \/ Invert
    \/ InvertAgain
    \/ \E start \in Nodes : Walk(start)
    \/ \E keep \in SUBSET Nodes : Subgraph(keep)
    \/ PrintAsGraphVis
    \/ TopoSortBegin
    \/ TopoSortStep
    \/ TopoSortEnd
    \/ \E args \in MainArgs : Main(args)

Next ==
    \/ \E c \in AddAllArgs(graph, calls) : AddAll(c[1], c[2])
    \/ Query

\* Every graph that MaxCalls addAll calls over BuildNodes build, the README's
\* example graph, and every operation on each of them.
Spec == Init /\ [][Next]_vars

(* ---------------------- what the claims speak of ----------------------- *)

\* The nodes of a graph: the keys of its mapping.
KeySet(g) == {g[i][1] : i \in 1..Len(g)}

\* The edge relation of a graph: the pairs <<A, B>> with B in A's edge set.
EdgeRel(g) == UNION {{<<g[i][1], d>> : d \in Range(g[i][2])} : i \in 1..Len(g)}

\* The nodes reachable from the nodes of S along zero or more edges of E.
RECURSIVE Reachable(_, _)
Reachable(E, S) ==
    LET T == S \cup {e[2] : e \in {x \in E : x[1] \in S}}
    IN  IF T = S THEN S ELSE Reachable(E, T)

\* The converse of an edge relation.
Converse(E) == {<<e[2], e[1]>> : e \in E}

\* A directed cycle, self-loops included: some edge A -> B with A reachable
\* from B.
HasCycle(g) == \E e \in EdgeRel(g) : e[1] \in Reachable(EdgeRel(g), {e[2]})

\* The number of edges that end at n.
InDegree(g, n) == Cardinality({e \in EdgeRel(g) : e[2] = n})

\* Some node has in-degree 0.
HasSource(g) == \E n \in KeySet(g) : InDegree(g, n) = 0

\* The position of x in a sequence that holds it.
IndexOf(s, x) == CHOOSE i \in 1..Len(s) : s[i] = x

\* A sequence without repetition.
NoDuplicates(s) == \A i, j \in 1..Len(s) : s[i] = s[j] => i = j

\* Every node an edge of g names is a key of g, and every edge set is a set.
Closed(g) ==
    /\ \A e \in EdgeRel(g) : MapHas(g, e[1]) /\ MapHas(g, e[2])
    /\ NoDuplicates(MapKeys(g))
    /\ \A i \in 1..Len(g) : NoDuplicates(g[i][2])

Returned(op) == pc = "done" /\ result.op = op

(* ------------------------------- claims -------------------------------- *)

\* C1: for a non-empty acyclic graph, topoSort returns an ordering that
\* holds every key exactly once and puts A before B for every edge A -> B.
C1_TopoSortValid ==
    (Returned("topoSort") /\ graph # <<>> /\ ~HasCycle(graph)) =>
        /\ result.value.error = "none"
        /\ Len(result.value.value) = Len(graph)
        /\ Range(result.value.value) = KeySet(graph)
        /\ NoDuplicates(result.value.value)
        /\ \A e \in EdgeRel(graph) :
               IndexOf(result.value.value, e[1]) < IndexOf(result.value.value, e[2])

\* C1 witness: topoSort has returned for an acyclic graph of three nodes in
\* which two edges end at the same node.
C1_Witness ==
    /\ Returned("topoSort")
    /\ ~HasCycle(graph)
    /\ Len(graph) = 3
    /\ \E n \in KeySet(graph) : InDegree(graph, n) = 2
    /\ result.value.error = "none"

\* C7: node closure. Every node that is a source or a destination of an edge
\* is a key, in the graph under construction and in every graph invert() or
\* subgraph() returns.
C7_NodeClosure ==
    /\ Closed(graph)
    /\ Returned("invert") => Closed(result.value)
    /\ Returned("invertInverted") => Closed(result.value)
    /\ Returned("subgraph") => Closed(result.value)

\* C7 witness: addAll has introduced a destination that has no edges of its
\* own, and invert() has returned a graph that has an edge.
C7_Witness ==
    /\ Returned("invert")
    /\ \E i \in 1..Len(graph) : graph[i][2] = <<>>
    /\ EdgeRel(result.value) # {}

\* C8: walk(start), for a key start, returns exactly the nodes reachable from
\* start along zero or more edges, start included.
C8_WalkReachable ==
    (Returned("walk") /\ MapHas(graph, result.arg)) =>
        /\ result.value.error = "none"
        /\ Range(result.value.value) = Reachable(EdgeRel(graph), {result.arg})
        /\ result.arg \in Range(result.value.value)

\* C8 witness: walk has returned on a graph with a cycle through start and
\* has reached three nodes.
C8_Witness ==
    /\ Returned("walk")
    /\ MapHas(graph, result.arg)
    /\ <<result.arg, result.arg>> \notin EdgeRel(graph)
    /\ \E e \in EdgeRel(graph) :
           e[2] = result.arg /\ e[1] \in Reachable(EdgeRel(graph), {result.arg})
    /\ Cardinality(Range(result.value.value)) = 3

\* C9: subgraph(K) is the induced subgraph: its nodes are the keys of G in K,
\* its edges the edges of G with both ends in K.
C9_SubgraphInduced ==
    Returned("subgraph") =>
        /\ KeySet(result.value) = KeySet(graph) \cap result.arg
        /\ KeySet(result.value) \subseteq result.arg
        /\ EdgeRel(result.value) =
               {e \in EdgeRel(graph) : e[1] \in result.arg /\ e[2] \in result.arg}
        /\ \A e \in EdgeRel(result.value) :
               e[1] \in result.arg /\ e[2] \in result.arg

\* C9 witness: subgraph has dropped a node and an edge that led to it, and
\* has kept an edge.
C9_Witness ==
    /\ Returned("subgraph")
    /\ \E e \in EdgeRel(graph) : e[1] \in result.arg /\ e[2] \notin result.arg
    /\ EdgeRel(result.value) # {}

\* C10: invert() returns a graph with the same nodes and the converse edge
\* relation, and inverting that graph gives back the nodes and edges of G.
C10_InvertConverse ==
    /\ Returned("invert") =>
           /\ KeySet(result.value) = KeySet(graph)
           /\ EdgeRel(result.value) = Converse(EdgeRel(graph))
    /\ Returned("invertInverted") =>
           /\ KeySet(result.value) = KeySet(graph)
           /\ EdgeRel(result.value) = EdgeRel(graph)

\* C10 witness: a graph with a node without edges and an edge that is not
\* its own converse has been inverted twice.
C10_Witness ==
    /\ Returned("invertInverted")
    /\ \E n \in KeySet(graph) : \A e \in EdgeRel(graph) : e[1] # n /\ e[2] # n
    /\ \E e \in EdgeRel(graph) : <<e[2], e[1]>> \notin EdgeRel(graph)

\* main got past its entrypoint check and went on with a selected graph.
MainSelected ==
    /\ Returned("main")
    /\ Len(result.arg) >= 1
    /\ Len(result.arg) = 2 => result.arg[2] \in {"topo", "viz"}
    /\ MapHas(graph, result.arg[1])

\* The packages a piece of main's output names: the packages of the printed
\* ordering, or the packages the printed digraph declares.
Printed(out) ==
    IF out[1] = "topo" THEN Range(out[2])
    ELSE {out[2][i][2] : i \in {j \in 1..Len(out[2]) : out[2][j][1] = "node"}}

\* The packages main sorts and renders are the set S: the graph it goes on
\* with is the subgraph induced by S, and each output names exactly S.
MainWorksOn(S) ==
    /\ KeySet(result.value.graph) = S
    /\ EdgeRel(result.value.graph) =
           {e \in EdgeRel(graph) : e[1] \in S /\ e[2] \in S}
    /\ \A i \in 1..Len(result.value.stdout) : Printed(result.value.stdout[i]) = S

\* C2 as stated: the packages sorted and rendered for entrypoint E are E and
\* every package E transitively depends on (the nodes reachable from E).
C2_Original ==
    MainSelected => MainWorksOn(Reachable(EdgeRel(graph), {result.arg[1]}))

\* C2 amended: the packages sorted and rendered for entrypoint E are E and
\* every package that transitively depends on E (the nodes E is reachable
\* from).
C2_SelectsDependents ==
    MainSelected =>
        MainWorksOn(Reachable(Converse(EdgeRel(graph)), {result.arg[1]}))

\* C2 witness: main has printed an ordering of an entrypoint and a package
\* that depends on it, in a graph where the entrypoint depends on a third
\* package that is left out.
C2_Witness ==
    /\ MainSelected
    /\ result.value.error = "none"
    /\ Len(result.value.stdout) = 1
    /\ result.value.stdout[1][1] = "topo"
    /\ Cardinality(Printed(result.value.stdout[1])) = 2
    /\ Reachable(EdgeRel(graph), {result.arg[1]})
           \ Reachable(Converse(EdgeRel(graph)), {result.arg[1]}) # {}

\* The neighbours of node, in edge-set order, whose every predecessor has
\* been emitted once node has been.
NewlyReady(g, emitted, node) ==
    SelectSeq(MapGet(g, node),
              LAMBDA n : \A e \in EdgeRel(g) : e[2] = n => e[1] \in emitted \cup {node})

\* One iteration of topoSort's loop emits the node at the end of the
\* work-list and pushes the newly ready neighbours in edge-set order.
LifoStep ==
    (pc = "topo" /\ pc' = "topo" /\ ts' # ts) =>
        LET node == ts.sources[Len(ts.sources)]
        IN  /\ ts'.ordering = Append(ts.ordering, node)
            /\ ts'.sources = SubSeq(ts.sources, 1, Len(ts.sources) - 1)
                                 \o NewlyReady(graph, Range(ts.ordering), node)

ReadmeOrdering == <<"one", "three", "two", "four">>

\* On the README's example graph with entrypoint four the workflow prints,
\* and topoSort returns, one, three, two, four.
ReadmeOutput ==
    graph = ReadmeGraph(Len(ReadmeCalls)) =>
        /\ (Returned("main") /\ result.arg = <<"four", "topo">>) =>
               result.value.stdout = <<(<<"topo", ReadmeOrdering>>)>>
        /\ Returned("topoSort") => result.value = Ok(ReadmeOrdering)

\* C3: topoSort always takes the next node from the end of its work-list and
\* pushes newly ready neighbours in edge-set order; so the README's example
\* with entrypoint four is ordered one, three, two, four.
C3_LifoOrder == [][LifoStep]_vars /\ []ReadmeOutput

\* C3 witness: the workflow has printed an ordering for the README's example
\* graph with entrypoint four.
C3_Witness ==
    /\ graph = ReadmeGraph(Len(ReadmeCalls))
    /\ Returned("main")
    /\ result.arg = <<"four", "topo">>
    /\ result.value.error = "none"

\* topoSort ends with the 'cycle' error exactly when some node has in-degree
\* 0 and a cycle keeps the ordering shorter than the node count, and returns
\* an ordering exactly when it ends with neither error.
CycleOrOrdering ==
    /\ result.value.error = CycleError <=>
           /\ HasSource(graph)
           /\ HasCycle(graph)
           /\ Len(ts.ordering) < Len(graph)
    /\ result.value.error \in {"none", NoSourceError, CycleError}
    /\ result.value.error = "none" =>
           result.value.value = ts.ordering /\ Len(ts.ordering) = Len(graph)
    /\ result.value.error = CycleError => HasCycle(graph)

\* C4 as stated: topoSort ends with the 'no source' error exactly when the
\* graph is non-empty and no node has in-degree 0, with the 'cycle' error
\* exactly when a node has in-degree 0 and a cycle keeps the ordering short,
\* and returns an ordering in every other case.
C4_Original ==
    Returned("topoSort") =>
        /\ result.value.error = NoSourceError <=>
               (graph # <<>> /\ ~HasSource(graph))
        /\ CycleOrOrdering

\* C4 amended: topoSort ends with the 'no source' error exactly when no node
\* has in-degree 0, which includes the empty graph; the rest as stated.
C4_Outcomes ==
    Returned("topoSort") =>
        /\ result.value.error = NoSourceError <=> ~HasSource(graph)
        /\ CycleOrOrdering

\* C4 witness: topoSort has ended with the 'cycle' error after emitting a
\* node.
C4_Witness ==
    /\ Returned("topoSort")
    /\ result.value.error = CycleError
    /\ ts.ordering # <<>>

\* C5: isCyclic returns true exactly when the graph has a directed cycle.
C5_IsCyclicIffCycle ==
    Returned("isCyclic") => (result.value <=> HasCycle(graph))

\* The kinds of output of a run, in the order printed.
Kinds(stdout) == [i \in 1..Len(stdout) |-> stdout[i][1]]

\* C6: a run that ends without an error prints only the ordering with mode
\* topo, only the rendering with mode viz, and both with no mode argument.
C6_ModeSelectsOutputs ==
    (Returned("main") /\ result.value.error = "none") =>
        /\ (Len(result.arg) = 2 /\ result.arg[2] = "topo") =>
               Kinds(result.value.stdout) = <<"topo">>
        /\ (Len(result.arg) = 2 /\ result.arg[2] = "viz") =>
               Kinds(result.value.stdout) = <<"viz">>
        /\ Len(result.arg) = 1 =>
               Kinds(result.value.stdout) = <<"topo", "viz">>

====
